---- MODULE Spec2Model ----
(***************************************************************************)
(* A model of the aurars utility library: the Either sum type and its      *)
(* combinators (either.rs), the Pipe wrapper and the pipe! macro (pipe.rs) *)
(* and the recur loop (recur.rs).  The library keeps no state between      *)
(* calls, so a behaviour of the model is ONE use of ONE component by a     *)
(* client: a call of recur, a chain of Either operations, an enclosing     *)
(* function that uses try_left!/try_right!, or an expansion of pipe!.      *)
(* Init chooses the component and the client's inputs.                     *)
(***************************************************************************)
EXTENDS Integers, Sequences, FiniteSets, TLC

VARIABLES
    comp,      \* the component this behaviour uses: "recur", "either", "try", "pipe"
    \* ---- recur (recur.rs) ----
    initial,   \* recur's argument `initial`
    f,         \* recur's argument `f`, a step function (see Apply)
    val,       \* the local `val`
    rstate,    \* "Running" while in the loop, "Terminated" once recur has returned
    result,    \* None while running, Some(b) once recur has returned b
    calls,     \* how many times f has been invoked (counted up to MaxCalls)
    ret,       \* what the last invocation of f returned (the scrutinee of `match`)
    \* ---- Either (either.rs) ----
    orig,      \* the value the client started from
    prev,      \* the value the last operation was applied to
    cur,       \* the value the last operation produced
    trace,     \* the operations applied so far, in order
    log,       \* the closure invocations made by the last operation
    \* ---- try_left! / try_right! inside an enclosing function ----
    tmacro,    \* "try_left" or "try_right"
    tin,       \* the Either handed to the macro
    tpc,       \* "call", "bound" (the macro produced a value), "returned"
    tv,        \* the value the macro bound, None before
    tret,      \* the enclosing function's return value, None before
    tstmts,    \* how many statements after the macro have been executed
    \* ---- Pipe (pipe.rs) ----
    px,        \* the expression pipe! starts from
    pw,        \* the current Pipe wrapper, None before Pipe::new and after into_inner
    ppc,       \* "start", "piped", "done"
    pfs,       \* the closures chained so far, in order
    plog,      \* the closure invocations made so far: <<closure, argument>>
    pres       \* Some(v) once into_inner returned v

vars == <<comp, initial, f, val, rstate, result, calls, ret,
          orig, prev, cur, trace, log,
          tmacro, tin, tpc, tv, tret, tstmts,
          px, pw, ppc, pfs, plog, pres>>

recurVars  == <<initial, f, val, rstate, result, calls, ret>>
eitherVars == <<orig, prev, cur, trace, log>>
tryVars    == <<tmacro, tin, tpc, tv, tret, tstmts>>
pipeVars   == <<px, pw, ppc, pfs, plog, pres>>

(***************************************************************************)
(* Bounds of the model.                                                    *)
(***************************************************************************)
MaxPayload == 2    \* payloads are 0..MaxPayload (and 42, the tests' value)
MaxState   == 2    \* a table step function has the states 0..MaxState
MaxCalls   == 12   \* `calls` counts up to MaxCalls; every terminating run ends before
MaxOps     == 2    \* the longest chain of Either operations
MaxPipe    == 2    \* the most closures chained in one pipe!

(***************************************************************************)
(* Values.  Every enum value is a record with its variant in `tag`.        *)
(***************************************************************************)
Unit == <<>>                                    \* Rust's ()

Left(l)  == [tag |-> "Left",  val |-> l]        \* either.rs:7
Right(r) == [tag |-> "Right", val |-> r]        \* either.rs:9
Some(v)  == [tag |-> "Some",  val |-> v]        \* Option::Some
None     == [tag |-> "None"]                    \* Option::None
Ok(v)    == [tag |-> "Ok",    val |-> v]        \* Result::Ok
Err(e)   == [tag |-> "Err",   val |-> e]        \* Result::Err
\* ControlFlow<B, C>: the payloads of its variants have different types (c, b).
Continue(c) == [tag |-> "Continue", c |-> c]    \* ControlFlow::Continue
Break(b)    == [tag |-> "Break",    b |-> b]    \* ControlFlow::Break

\* What a call produces: a value, or a panic with its message.
Bool(b)    == [tag |-> "Bool",  val |-> b]
Val(v)     == [tag |-> "Val",   val |-> v]
Panic(msg) == [tag |-> "Panic", val |-> msg]

IsEither(e) == e.tag \in {"Left", "Right"}
IsOption(o) == o.tag \in {"Some", "None"}
IsResult(r) == r.tag \in {"Ok", "Err"}

Payloads == 0..MaxPayload

(***************************************************************************)
(* Closures.  A closure is a sequence of primitive closures, applied in    *)
(* order; the clients of the model use |x| x (id), |x| x + 1 (inc) and     *)
(* |x| x * 2 (dbl), the closures of the tests in pipe.rs and either.rs.    *)
(***************************************************************************)
Prim(p, x) ==
    CASE p = "id"  -> x
      [] p = "inc" -> x + 1
      [] p = "dbl" -> x * 2

RECURSIVE App(_, _)
App(fn, x) == IF fn = <<>> THEN x ELSE App(Tail(fn), Prim(Head(fn), x))

Compose(g, fn) == fn \o g                       \* |x| g(fn(x))

Fns == {<<"id">>, <<"inc">>, <<"dbl">>}

(***************************************************************************)
(* recur (recur.rs).                                                       *)
(*                                                                         *)
(* A step function is deterministic and is either                          *)
(*   [kind |-> "count", limit |-> n]: the closure of test_recur,           *)
(*       |i| if i < n { Continue(i + 1) } else { Break(i.to_string()) }    *)
(*   [kind |-> "table", tab |-> t]: any function from the states           *)
(*       0..MaxState to Continue(c) or Break(b), given by its table.       *)
(***************************************************************************)
CountLimit == 10

Digits == <<"0", "1", "2", "3", "4", "5", "6", "7", "8", "9">>

\* i.to_string() of a non-negative integer: its decimal digits.
RECURSIVE Stringify(_)
Stringify(n) ==
    IF n < 10 THEN Digits[n + 1]
    ELSE Stringify(n \div 10) \o Digits[(n % 10) + 1]

States    == 0..MaxState
BreakVals == {"x", "y"}
Outcomes  == {Continue(c) : c \in States} \cup {Break(b) : b \in BreakVals}

StepFns ==
    {[kind |-> "count", limit |-> CountLimit]}
        \cup {[kind |-> "table", tab |-> t] : t \in [States -> Outcomes]}

\* f(c)
Apply(fn, c) ==
    IF fn.kind = "count"
    THEN IF c < fn.limit THEN Continue(c + 1) ELSE Break(Stringify(c))
    ELSE fn.tab[c]

\* A faulty recur_call: the scrutinee is evaluated again when the state is 0.
recur_call_twice(fn, v) == [r |-> Apply(fn, v), n |-> IF v = 0 THEN 2 ELSE 1]

\* One evaluation of the scrutinee `f(val)`: what f returned, and how many times f
\* was invoked to get it.
recur_call(fn, v) == [r |-> Apply(fn, v), n |-> 1]

\* A faulty recur_match: Continue(c) leaves `val` as it was.
recur_match_keeps_val(r, v) ==
    IF r.tag = "Continue"
    THEN [state |-> "Running", val |-> v, result |-> None]
    ELSE [state |-> "Terminated", val |-> v, result |-> Some(r.b)]

\* A faulty recur_match: the loop also ends when the state did not change, and
\* then returns nothing that f broke with.
recur_match_fixpoint(r, v) ==
    IF r.tag = "Continue"
    THEN IF r.c = v
         THEN [state |-> "Terminated", val |-> v, result |-> Some("")]
         ELSE [state |-> "Running", val |-> r.c, result |-> None]
    ELSE [state |-> "Terminated", val |-> v, result |-> Some(r.b)]

\* The arms of the `match`: Continue(c) => val = c and the loop goes on,
\* Break(b) => return b.  v is the `val` that was moved into f.
recur_match(r, v) ==
    IF r.tag = "Continue"
    THEN [state |-> "Running", val |-> r.c, result |-> None]
    ELSE [state |-> "Terminated", val |-> v, result |-> Some(r.b)]

\* `calls` is an observer of the loop, not a variable of the code: it counts the
\* invocations of f up to MaxCalls and stays there, so that it never stops the loop.
Min(a, b) == IF a < b THEN a ELSE b

Idle == [tag |-> "Idle"]

RecurIdle ==
    /\ initial = 0 /\ f = Idle /\ val = 0 /\ rstate = "Idle"
    /\ result = None /\ calls = 0 /\ ret = Idle

\* recur(initial, f) has been called: `let mut val = initial;`
RecurInit ==
    /\ comp = "recur"
    /\ f \in StepFns
    /\ initial \in States
    /\ val = initial
    /\ rstate = "Running"
    /\ result = None
    /\ calls = 0
    /\ ret = Idle

\* One iteration of `loop { match f(val) { ... } }`.
RecurStep ==
    /\ comp = "recur"
    /\ rstate = "Running"
    /\ LET c == recur_call(f, val)
           m == recur_match(c.r, val)
       IN  /\ ret' = c.r
           /\ calls' = Min(calls + c.n, MaxCalls)
           /\ rstate' = m.state
           /\ val' = m.val
           /\ result' = m.result
    /\ UNCHANGED <<comp, initial, f, eitherVars, tryVars, pipeVars>>

(***************************************************************************)
(* Either (either.rs).  A consuming method takes the Either and returns    *)
(* what the call produces; a method that takes closures returns            *)
(* [out |-> the value, log |-> the closure invocations it made], each      *)
(* invocation being [param |-> "f" or "g", arg |-> the argument].          *)
(***************************************************************************)
is_left(e)  == IF e.tag = "Left" THEN TRUE ELSE FALSE

is_right(e) == IF e.tag = "Right" THEN TRUE ELSE FALSE

left(e)  == IF e.tag = "Left" THEN Some(e.val) ELSE None

\* A faulty right: the arms of left.
right_like_left(e) == IF e.tag = "Left" THEN Some(e.val) ELSE None

right(e) == IF e.tag = "Left" THEN None ELSE Some(e.val)

\* A faulty as_left: None becomes the named variant.
as_left_symmetric(o) == IF o.tag = "Some" THEN Left(o.val) ELSE Left(Unit)

as_left(o)  == IF o.tag = "Some" THEN Left(o.val) ELSE Right(Unit)

as_right(o) == IF o.tag = "Some" THEN Right(o.val) ELSE Left(Unit)

\* The panic messages (the source writes the names between backquotes).
UnwrapLeftMsg  == "called Either::unwrap_left() on a Right value"
UnwrapRightMsg == "called Either::unwrap_right() on a Left value"

\* A faulty unwrap_left: the payload of either variant.
unwrap_left_lenient(e) == Val(e.val)

unwrap_left(e)  == IF e.tag = "Left" THEN Val(e.val) ELSE Panic(UnwrapLeftMsg)

unwrap_right(e) == IF e.tag = "Left" THEN Panic(UnwrapRightMsg) ELSE Val(e.val)

expected_left(e, msg)  == IF e.tag = "Left" THEN Val(e.val) ELSE Panic(msg)

expected_right(e, msg) == IF e.tag = "Left" THEN Panic(msg) ELSE Val(e.val)

Invoke(param, arg) == [param |-> param, arg |-> arg]

map_either(e, fn, g) ==
    IF e.tag = "Left"
    THEN [out |-> Left(App(fn, e.val)), log |-> <<Invoke("f", e.val)>>]
    ELSE [out |-> Right(App(g, e.val)), log |-> <<Invoke("g", e.val)>>]

\* A faulty map_left: the closure is applied to a Right payload too.
map_left_maps_both(e, fn) ==
    IF e.tag = "Left"
    THEN [out |-> Left(App(fn, e.val)), log |-> <<Invoke("f", e.val)>>]
    ELSE [out |-> Right(App(fn, e.val)), log |-> <<Invoke("f", e.val)>>]

map_left(e, fn) ==
    IF e.tag = "Left"
    THEN [out |-> Left(App(fn, e.val)), log |-> <<Invoke("f", e.val)>>]
    ELSE [out |-> Right(e.val), log |-> <<>>]

map_right(e, fn) ==
    IF e.tag = "Left"
    THEN [out |-> Left(e.val), log |-> <<>>]
    ELSE [out |-> Right(App(fn, e.val)), log |-> <<Invoke("f", e.val)>>]

swap(e) == IF e.tag = "Left" THEN Right(e.val) ELSE Left(e.val)

\* A faulty from_result: Ok to Right and Err to Left.
from_result_swapped(r) == IF r.tag = "Ok" THEN Right(r.val) ELSE Left(r.val)

\* impl From<Result<L, R>> for Either<L, R>
from_result(r) == IF r.tag = "Ok" THEN Left(r.val) ELSE Right(r.val)

\* impl From<Either<L, R>> for Result<L, R>
into_result(e) == IF e.tag = "Left" THEN Ok(e.val) ELSE Err(e.val)

(***************************************************************************)
(* The client of Either: it starts from an Either, an Option or a Result   *)
(* and applies up to MaxOps operations, each to the value the one before   *)
(* produced.  A panic ends the chain.                                      *)
(***************************************************************************)
Eithers == {Left(l) : l \in Payloads} \cup {Right(r) : r \in Payloads}
Options == {Some(v) : v \in Payloads} \cup {None}
Results == {Ok(v) : v \in Payloads} \cup {Err(e) : e \in Payloads}
Msgs    == {"m1", "m2"}

Op(name)          == [name |-> name, f |-> <<>>, g |-> <<>>, msg |-> ""]
OpMsg(name, msg)  == [name |-> name, f |-> <<>>, g |-> <<>>, msg |-> msg]
OpFn(name, fn, g) == [name |-> name, f |-> fn, g |-> g, msg |-> ""]

NoLog(v) == [out |-> v, log |-> <<>>]

EitherIdle ==
    orig = Idle /\ prev = Idle /\ cur = Idle /\ trace = <<>> /\ log = <<>>

EitherInit ==
    /\ comp = "either"
    /\ orig \in Eithers \cup Options \cup Results
    /\ cur = orig
    /\ prev = Idle
    /\ trace = <<>>
    /\ log = <<>>

\* The client's closures take and return integers: they are used on an Either both
\* of whose sides are integers, which one made by as_left/as_right is not.
IntSides == \A i \in 1..Len(trace) : trace[i].name \notin {"as_left", "as_right"}

CanCall  == comp = "either" /\ Len(trace) < MaxOps
OnEither == CanCall /\ IsEither(cur)

EitherDo(op, r) ==
    /\ prev' = cur
    /\ cur' = r.out
    /\ log' = r.log
    /\ trace' = Append(trace, op)
    /\ UNCHANGED <<comp, orig, recurVars, tryVars, pipeVars>>

CallIsLeft  == OnEither /\ EitherDo(Op("is_left"), NoLog(Bool(is_left(cur))))
CallIsRight == OnEither /\ EitherDo(Op("is_right"), NoLog(Bool(is_right(cur))))
CallLeft    == OnEither /\ EitherDo(Op("left"), NoLog(left(cur)))
CallRight   == OnEither /\ EitherDo(Op("right"), NoLog(right(cur)))
CallAsLeft  == CanCall /\ IsOption(cur) /\ EitherDo(Op("as_left"), NoLog(as_left(cur)))
CallAsRight == CanCall /\ IsOption(cur) /\ EitherDo(Op("as_right"), NoLog(as_right(cur)))
CallUnwrapLeft  == OnEither /\ EitherDo(Op("unwrap_left"), NoLog(unwrap_left(cur)))
CallUnwrapRight == OnEither /\ EitherDo(Op("unwrap_right"), NoLog(unwrap_right(cur)))
CallExpectedLeft ==
    OnEither /\ \E msg \in Msgs :
        EitherDo(OpMsg("expected_left", msg), NoLog(expected_left(cur, msg)))
CallExpectedRight ==
    OnEither /\ \E msg \in Msgs :
        EitherDo(OpMsg("expected_right", msg), NoLog(expected_right(cur, msg)))
CallMapEither ==
    OnEither /\ IntSides /\ \E fn \in Fns, g \in Fns :
        EitherDo(OpFn("map_either", fn, g), map_either(cur, fn, g))
CallMapLeft ==
    OnEither /\ IntSides /\ \E fn \in Fns :
        EitherDo(OpFn("map_left", fn, <<>>), map_left(cur, fn))
CallMapRight ==
    OnEither /\ IntSides /\ \E fn \in Fns :
        EitherDo(OpFn("map_right", fn, <<>>), map_right(cur, fn))
CallSwap == OnEither /\ EitherDo(Op("swap"), NoLog(swap(cur)))
CallFromResult ==
    CanCall /\ IsResult(cur) /\ EitherDo(Op("from_result"), NoLog(from_result(cur)))
CallIntoResult == OnEither /\ EitherDo(Op("into_result"), NoLog(into_result(cur)))

EitherNext ==
    \/ CallIsLeft \/ CallIsRight \/ CallLeft \/ CallRight
    \/ CallAsLeft \/ CallAsRight
    \/ CallUnwrapLeft \/ CallUnwrapRight \/ CallExpectedLeft \/ CallExpectedRight
    \/ CallMapEither \/ CallMapLeft \/ CallMapRight \/ CallSwap
    \/ CallFromResult \/ CallIntoResult

(***************************************************************************)
(* try_left! and try_right! (either.rs), used as in test_try_left: the     *)
(* enclosing function is                                                   *)
(*     || { let v = try_left!(tin); Left(v + 1) }                          *)
(* and, for try_right!, the same with Right.  A macro's expansion either   *)
(* evaluates to the matching payload (Bind) or returns from the enclosing  *)
(* function (Return).                                                      *)
(***************************************************************************)
Bind(v)   == [tag |-> "Bind", val |-> v]
Return(v) == [tag |-> "Return", val |-> v]

\* A faulty try_left!: the early return wraps the payload in Left.
try_left_returns_left(e) ==
    IF e.tag = "Left" THEN Bind(e.val) ELSE Return(Left(e.val))

try_left(e)  == IF e.tag = "Left" THEN Bind(e.val) ELSE Return(Right(e.val))

try_right(e) == IF e.tag = "Right" THEN Bind(e.val) ELSE Return(Left(e.val))

TestPayload == 42

TryInputs == Eithers \cup {Left(TestPayload), Right(TestPayload)}

TryIdle ==
    /\ tmacro = "" /\ tin = Idle /\ tpc = "idle"
    /\ tv = None /\ tret = None /\ tstmts = 0

TryInit ==
    /\ comp = "try"
    /\ tmacro \in {"try_left", "try_right"}
    /\ tin \in TryInputs
    /\ tpc = "call"
    /\ tv = None
    /\ tret = None
    /\ tstmts = 0

TryDo(m) ==
    /\ IF m.tag = "Bind"
       THEN tv' = Some(m.val) /\ tpc' = "bound" /\ UNCHANGED tret
       ELSE tret' = Some(m.val) /\ tpc' = "returned" /\ UNCHANGED tv
    /\ UNCHANGED <<comp, tmacro, tin, tstmts, recurVars, eitherVars, pipeVars>>

\* let v = try_left!(tin);
TryLeft  == comp = "try" /\ tpc = "call" /\ tmacro = "try_left" /\ TryDo(try_left(tin))

\* let v = try_right!(tin);
TryRight == comp = "try" /\ tpc = "call" /\ tmacro = "try_right" /\ TryDo(try_right(tin))

\* The statement after the macro: Left(v + 1), resp. Right(v + 1).
TryTail ==
    /\ comp = "try"
    /\ tpc = "bound"
    /\ tret' = Some(IF tmacro = "try_left" THEN Left(tv.val + 1) ELSE Right(tv.val + 1))
    /\ tstmts' = tstmts + 1
    /\ tpc' = "returned"
    /\ UNCHANGED <<comp, tmacro, tin, tv, recurVars, eitherVars, pipeVars>>

(***************************************************************************)
(* Pipe and pipe! (pipe.rs):                                               *)
(*     Pipe::new($expr) $(.pipe($f))* .into_inner()                        *)
(***************************************************************************)
Pipe(t) == [tag |-> "Pipe", val |-> t]          \* pub struct Pipe<T>(T)

Pipe_new(t) == Pipe(t)

\* A faulty pipe: the wrapper is rebuilt without calling f.
Pipe_pipe_skips(p, fn) == [out |-> Pipe(p.val), log |-> <<>>]

\* [out |-> the new wrapper, log |-> the invocations of f: <<closure, argument>>]
Pipe_pipe(p, fn) == [out |-> Pipe(App(fn, p.val)), log |-> <<<<fn, p.val>>>>]

Pipe_into_inner(p) == p.val

PipeIdle ==
    /\ px = 0 /\ pw = None /\ ppc = "idle"
    /\ pfs = <<>> /\ plog = <<>> /\ pres = None

PipeInit ==
    /\ comp = "pipe"
    /\ px \in Payloads
    /\ pw = None
    /\ ppc = "start"
    /\ pfs = <<>>
    /\ plog = <<>>
    /\ pres = None

PipeNew ==
    /\ comp = "pipe"
    /\ ppc = "start"
    /\ pw' = Pipe_new(px)
    /\ ppc' = "piped"
    /\ UNCHANGED <<comp, px, pfs, plog, pres, recurVars, eitherVars, tryVars>>

PipePipe ==
    /\ comp = "pipe"
    /\ ppc = "piped"
    /\ Len(pfs) < MaxPipe
    /\ \E fn \in Fns :
        LET r == Pipe_pipe(pw, fn)
        IN  /\ pw' = r.out
            /\ pfs' = Append(pfs, fn)
            /\ plog' = plog \o r.log
    /\ ppc' = "piped"
    /\ UNCHANGED <<comp, px, pres, recurVars, eitherVars, tryVars>>

PipeIntoInner ==
    /\ comp = "pipe"
    /\ ppc = "piped"
    /\ pres' = Some(Pipe_into_inner(pw))
    /\ pw' = None
    /\ ppc' = "done"
    /\ UNCHANGED <<comp, px, pfs, plog, recurVars, eitherVars, tryVars>>

(***************************************************************************)
(* The specification.                                                      *)
(***************************************************************************)
Init ==
    \/ RecurInit /\ EitherIdle /\ TryIdle /\ PipeIdle
    \/ EitherInit /\ RecurIdle /\ TryIdle /\ PipeIdle
    \/ TryInit /\ RecurIdle /\ EitherIdle /\ PipeIdle
    \/ PipeInit /\ RecurIdle /\ EitherIdle /\ TryIdle

Next ==
    \/ RecurStep
    \/ EitherNext
    \/ TryLeft \/ TryRight \/ TryTail
    \/ PipeNew \/ PipePipe \/ PipeIntoInner

Spec == Init /\ [][Next]_vars

\* A call of recur alone.  The loop is synchronous code that nothing suspends: an
\* iteration that can be taken is taken, which is weak fairness of RecurStep.
RecurOnly == RecurInit /\ EitherIdle /\ TryIdle /\ PipeIdle

RecurSpec == RecurOnly /\ [][RecurStep]_vars /\ WF_vars(RecurStep)

(***************************************************************************)
(* Reference semantics of recur, for the properties below: the chain       *)
(* initial, c1, c2, ... of a step function and its first Break.            *)
(***************************************************************************)
\* The k-th state of the chain of fn from c0 (its first k results are Continue).
RECURSIVE ChainAt(_, _, _)
ChainAt(fn, c0, k) == IF k = 0 THEN c0 ELSE Apply(fn, ChainAt(fn, c0, k - 1)).c

\* The first Break of the chain from c, looking at most `fuel` states ahead:
\* found, after k Continue results, with payload b.
RECURSIVE Walk(_, _, _, _)
Walk(fn, c, k, fuel) ==
    IF fuel = 0 THEN [found |-> FALSE, k |-> k, b |-> ""]
    ELSE LET r == Apply(fn, c)
         IN  IF r.tag = "Break" THEN [found |-> TRUE, k |-> k, b |-> r.b]
             ELSE Walk(fn, r.c, k + 1, fuel - 1)

\* A chain over 0..MaxState that breaks does so within MaxState + 1 states, the
\* counted loop within CountLimit + 1: MaxCalls states ahead see every Break.
FirstBreak == Walk(f, initial, 0, MaxCalls)

\* Equality of two tagged values, the tags first: the payloads of different
\* variants need not be comparable.
Same(a, b) == a.tag = b.tag /\ (a.tag # "None" => a.val = b.val)

LastOp == trace[Len(trace)]

Names == [i \in 1..Len(trace) |-> trace[i].name]

(***************************************************************************)
(* C1: recur is the machine Running(c)/Terminated(b).  While running after *)
(* k invocations the current state is the k-th state of f's chain; when    *)
(* the chain of f reaches a Break, recur returns, and what it returns is   *)
(* the payload of the FIRST Break of the chain; from 0, with the counted   *)
(* step function of limit 10, it returns "10".                             *)
(***************************************************************************)
C1_Machine ==
    /\ rstate = "Running" /\ calls < MaxCalls =>
          /\ val = ChainAt(f, initial, calls)
          /\ FirstBreak.found => calls <= FirstBreak.k
          /\ result = None
    /\ rstate = "Terminated" =>
          /\ FirstBreak.found
          /\ Same(result, Some(FirstBreak.b))
    /\ rstate = "Terminated" /\ f.kind = "count" /\ f.limit = 10 /\ initial = 0 =>
          Same(result, Some("10"))

\* C1: recur always is that machine, and a chain that reaches a Break makes recur
\* return (the loop takes every iteration it can take).
C1_RecurReturnsFirstBreak ==
    /\ []C1_Machine
    /\ FirstBreak.found ~> rstate = "Terminated"

C1_Witness ==
    /\ comp = "recur" /\ rstate = "Terminated"
    /\ f.kind = "count" /\ initial = 0 /\ calls = 11
    /\ Same(result, Some("10"))

(***************************************************************************)
(* C2: f is invoked exactly once per iteration.  When the first Break      *)
(* comes after k Continue results recur has invoked f k + 1 times; when f  *)
(* breaks on the first call that is once, and recur returns that value;    *)
(* once Terminated nothing happens any more.                               *)
(***************************************************************************)
C2_OneCallPerIteration ==
    comp = "recur" =>
        /\ rstate = "Terminated" => calls = FirstBreak.k + 1
        /\ rstate = "Terminated" /\ Apply(f, initial).tag = "Break" =>
              /\ calls = 1
              /\ Same(result, Some(Apply(f, initial).b))
        /\ rstate = "Running" /\ FirstBreak.found => calls <= FirstBreak.k
        /\ rstate = "Terminated" => ~ENABLED Next

C2_Witness ==
    /\ comp = "recur" /\ rstate = "Terminated" /\ f.kind = "table"
    /\ Apply(f, initial).tag = "Break" /\ calls = 1

(***************************************************************************)
(* C3: a step function whose chain never reaches a Break keeps recur       *)
(* Running: after any number of iterations the next one can be taken (no   *)
(* cap).  recur is Terminated only because the last invocation of f        *)
(* returned Break, and with that payload.                                  *)
(***************************************************************************)
C3_StopsOnlyOnBreak ==
    comp = "recur" =>
        /\ ~FirstBreak.found => rstate = "Running"
        /\ rstate = "Running" => ENABLED RecurStep
        /\ rstate = "Terminated" =>
              /\ ret.tag = "Break"
              /\ ret = Apply(f, val)
              /\ Same(result, Some(ret.b))

C3_Witness ==
    /\ comp = "recur" /\ rstate = "Running" /\ calls = MaxCalls
    /\ f.kind = "table" /\ \A c \in States : f.tab[c].tag = "Continue"

(***************************************************************************)
(* C4: on Left(l) is_left is true, is_right false, left is Some(l), right  *)
(* None; on Right(r) the other way round; none of the four fails, and of   *)
(* is_left and is_right exactly one holds of every Either.                 *)
(***************************************************************************)
C4_PredicatesAndProjections ==
    /\ comp = "either" /\ trace # <<>> /\ IsEither(prev) =>
          /\ LastOp.name = "is_left"  => Same(cur, Bool(prev.tag = "Left"))
          /\ LastOp.name = "is_right" => Same(cur, Bool(prev.tag = "Right"))
          /\ LastOp.name = "left" =>
                Same(cur, IF prev.tag = "Left" THEN Some(prev.val) ELSE None)
          /\ LastOp.name = "right" =>
                Same(cur, IF prev.tag = "Right" THEN Some(prev.val) ELSE None)
    /\ comp = "either" /\ IsEither(cur) =>
          /\ is_left(cur) # is_right(cur)
          /\ is_left(cur) <=> cur.tag = "Left"

C4_Witness ==
    /\ comp = "either" /\ trace = <<Op("right")>>
    /\ Same(prev, Right(1)) /\ Same(cur, Some(1))

(***************************************************************************)
(* C5: unwrap_left returns l on Left(l) and panics on Right, unwrap_right  *)
(* returns r on Right(r) and panics on Left, expected_left/expected_right  *)
(* likewise with the caller's message; a call panics only if it is one of  *)
(* these four on the wrong variant, and a panic yields no value to go on   *)
(* with.                                                                   *)
(***************************************************************************)
C5_UnwrapPanicsOnWrongVariant ==
    comp = "either" /\ trace # <<>> =>
        /\ LastOp.name = "unwrap_left" =>
              Same(cur, IF prev.tag = "Left" THEN Val(prev.val) ELSE Panic(UnwrapLeftMsg))
        /\ LastOp.name = "unwrap_right" =>
              Same(cur, IF prev.tag = "Right" THEN Val(prev.val) ELSE Panic(UnwrapRightMsg))
        /\ LastOp.name = "expected_left" =>
              Same(cur, IF prev.tag = "Left" THEN Val(prev.val) ELSE Panic(LastOp.msg))
        /\ LastOp.name = "expected_right" =>
              Same(cur, IF prev.tag = "Right" THEN Val(prev.val) ELSE Panic(LastOp.msg))
        /\ cur.tag = "Panic" <=>
              \/ LastOp.name \in {"unwrap_left", "expected_left"} /\ prev.tag = "Right"
              \/ LastOp.name \in {"unwrap_right", "expected_right"} /\ prev.tag = "Left"
        /\ cur.tag = "Panic" => ~ENABLED Next

C5_Witness ==
    /\ comp = "either" /\ trace = <<Op("unwrap_left")>>
    /\ Same(prev, Right(1)) /\ cur.tag = "Panic"

(***************************************************************************)
(* C6: Either -> Result maps Left(l) to Ok(l) and Right(r) to Err(r),      *)
(* Result -> Either maps Ok(l) to Left(l) and Err(r) to Right(r), and the  *)
(* two conversions undo each other in both orders.                         *)
(***************************************************************************)
C6_ResultRoundTrip ==
    comp = "either" /\ trace # <<>> =>
        /\ LastOp.name = "into_result" =>
              Same(cur, IF prev.tag = "Left" THEN Ok(prev.val) ELSE Err(prev.val))
        /\ LastOp.name = "from_result" =>
              Same(cur, IF prev.tag = "Ok" THEN Left(prev.val) ELSE Right(prev.val))
        /\ Names = <<"into_result", "from_result">> => Same(cur, orig)
        /\ Names = <<"from_result", "into_result">> => Same(cur, orig)

C6_Witness ==
    /\ comp = "either" /\ Names = <<"into_result", "from_result">>
    /\ Same(orig, Right(2)) /\ Same(prev, Err(2)) /\ Same(cur, Right(2))

(***************************************************************************)
(* C7: map_either(id, id) returns an equal value; map_left(f) then         *)
(* map_left(g) equals map_left(g after f); map_either invokes exactly one  *)
(* of its closures, f on a Left payload and g on a Right payload;          *)
(* map_left and map_right return the other side as it was and invoke       *)
(* nothing on it.                                                          *)
(***************************************************************************)
C7_FunctorLaws ==
    comp = "either" /\ trace # <<>> =>
        /\ LastOp.name = "map_either" =>
              /\ log = <<Invoke(IF prev.tag = "Left" THEN "f" ELSE "g", prev.val)>>
              /\ Same(cur, IF prev.tag = "Left"
                           THEN Left(App(LastOp.f, prev.val))
                           ELSE Right(App(LastOp.g, prev.val)))
              /\ LastOp.f = <<"id">> /\ LastOp.g = <<"id">> => Same(cur, prev)
        /\ LastOp.name = "map_left" =>
              IF prev.tag = "Left"
              THEN Same(cur, Left(App(LastOp.f, prev.val))) /\ Len(log) = 1
              ELSE Same(cur, prev) /\ log = <<>>
        /\ LastOp.name = "map_right" =>
              IF prev.tag = "Right"
              THEN Same(cur, Right(App(LastOp.f, prev.val))) /\ Len(log) = 1
              ELSE Same(cur, prev) /\ log = <<>>
        /\ Names = <<"map_left", "map_left">> =>
              Same(cur, map_left(orig, Compose(trace[2].f, trace[1].f)).out)

C7_Witness ==
    /\ comp = "either" /\ Names = <<"map_left", "map_left">>
    /\ trace[1].f = <<"inc">> /\ trace[2].f = <<"dbl">>
    /\ Same(orig, Left(1)) /\ Same(cur, Left(4))

(***************************************************************************)
(* C8: as_left(Some(v)) is Left(v) and as_left(None) is Right(()),         *)
(* as_right(Some(v)) is Right(v) and as_right(None) is Left(()).           *)
(***************************************************************************)
C8_OptionConversion ==
    comp = "either" /\ trace # <<>> =>
        /\ LastOp.name = "as_left" =>
              IF prev.tag = "Some" THEN Same(cur, Left(prev.val))
              ELSE cur.tag = "Right" /\ cur.val = Unit
        /\ LastOp.name = "as_right" =>
              IF prev.tag = "Some" THEN Same(cur, Right(prev.val))
              ELSE cur.tag = "Left" /\ cur.val = Unit

C8_Witness ==
    /\ comp = "either" /\ trace = <<Op("as_left")>>
    /\ prev.tag = "None" /\ cur.tag = "Right"

(***************************************************************************)
(* C9: try_left! on Left(v) binds v and the enclosing function goes on     *)
(* with its next statement; on Right(w) the enclosing function returns     *)
(* Right(w) at once and executes nothing after the macro.  try_right! is   *)
(* the mirror image.  With Left(42) the function of test_try_left returns  *)
(* Left(43).                                                               *)
(***************************************************************************)
C9_TryEarlyReturn ==
    comp = "try" =>
        LET hit == IF tmacro = "try_left" THEN "Left" ELSE "Right"
        IN  /\ tpc = "bound" =>
                  /\ tin.tag = hit
                  /\ Same(tv, Some(tin.val))
                  /\ tret = None /\ tstmts = 0
                  /\ ENABLED TryTail
            /\ tpc = "returned" /\ tin.tag = hit =>
                  /\ tstmts = 1
                  /\ tret.tag = "Some"
                  /\ Same(tret.val, [tag |-> hit, val |-> tin.val + 1])
            /\ tpc = "returned" /\ tin.tag # hit =>
                  /\ tstmts = 0 /\ tv = None
                  /\ tret.tag = "Some" /\ Same(tret.val, tin)
            /\ tpc = "returned" /\ tmacro = "try_left" /\ Same(tin, Left(42)) =>
                  Same(tret.val, Left(43))

C9_Witness ==
    /\ comp = "try" /\ tpc = "returned" /\ tmacro = "try_left"
    /\ Same(tin, Right(1)) /\ tstmts = 0 /\ tret.tag = "Some" /\ Same(tret.val, Right(1))

(***************************************************************************)
(* C10: into_inner returns the closures applied to the start value, once   *)
(* each and in the order they were chained: g(f(x)) for two, x for none;   *)
(* chaining f then g gives what chaining the one closure g-after-f gives;  *)
(* 1 with +1 then *2 gives 4.                                              *)
(***************************************************************************)
RECURSIVE ApplyAll(_, _)
ApplyAll(fs, x) == IF fs = <<>> THEN x ELSE ApplyAll(Tail(fs), App(Head(fs), x))

C10_PipeComposition ==
    /\ comp = "pipe" =>
          /\ Len(plog) = Len(pfs)
          /\ \A i \in 1..Len(pfs) :
                plog[i] = <<pfs[i], ApplyAll(SubSeq(pfs, 1, i - 1), px)>>
    /\ comp = "pipe" /\ ppc = "done" =>
          /\ pres = Some(ApplyAll(pfs, px))
          /\ Len(pfs) = 0 => pres = Some(px)
          /\ Len(pfs) = 2 =>
                /\ pres = Some(App(pfs[2], App(pfs[1], px)))
                /\ pres = Some(Pipe_into_inner(
                              Pipe_pipe(Pipe_new(px), Compose(pfs[2], pfs[1])).out))
          /\ px = 1 /\ pfs = <<(<<"inc">>), (<<"dbl">>)>> => pres = Some(4)

C10_Witness ==
    /\ comp = "pipe" /\ ppc = "done"
    /\ px = 1 /\ pfs = <<(<<"inc">>), (<<"dbl">>)>> /\ pres = Some(4)
====
